---- MODULE Spec2Model ----
(***************************************************************************)
(* A model of src/main.cpp: the cooperative fiber scheduler                *)
(* (FiberScheduler), its stack pool (StackPool), the process-wide          *)
(* instance (global_scheduler) with the free functions schedule, yield,    *)
(* init_global_scheduler and run_global_scheduler, and the fiber bodies    *)
(* the test functions of the file schedule.                                *)
(*                                                                         *)
(* There is one logical flow of control.  Thread 0 is the program's own    *)
(* stack (main and the test functions); thread f >= 1 is the stack of the  *)
(* f-th fiber scheduled.  cur is the thread that is executing, pc[t] the   *)
(* position of thread t.                                                   *)
(***************************************************************************)
EXTENDS Integers, Sequences, FiniteSets, TLC

\* Bounds of the model.
MaxFibers == 4      \* fibers ever scheduled in a behaviour
MaxIters == 2       \* iterations of a yielding loop body (ITERS in the tests)
MaxDepth == 2       \* depth of a nested-schedule chain

VARIABLES
    global_scheduler,   \* TRUE iff the unique_ptr holds a FiberScheduler
    queue,              \* FiberScheduler::queue, a sequence of Context
    main_loop,          \* FiberScheduler::main_loop (static)
    stacks,             \* StackPool::stacks, the free list (back = last)
    created,            \* number of blocks obtained from calloc so far
    cur,                \* the executing thread
    pc,                 \* pc[t]: position of thread t
    nfib,               \* number of FiberKeepers constructed so far
    body,               \* body[f]: FiberKeeper::fiber, the callable
    ip,                 \* ip[f]: next operation of body[f]
    stack,              \* stack[f]: FiberKeeper::stack (0 = nullptr)
    x,                  \* the tests' shared counter
    cur_fiber,          \* id of the last fiber that incremented x (test_yield_many)
    call,               \* the operation the program called last
    result,             \* how that call ended
    threw,              \* TRUE iff a call has ended in std::runtime_error
    pushed,             \* threads whose context was appended to a queue, in order
    popped,             \* threads whose context run_one took, in order
    peak                \* most fibers scheduled and not completed at one time

vars == <<global_scheduler, queue, main_loop, stacks, created, cur, pc, nfib,
          body, ip, stack, x, cur_fiber, call, result, threw, pushed, popped,
          peak>>

Threads == 0 .. MaxFibers
FiberIds == 1 .. MaxFibers

\* fiber f has been scheduled and run_fiber has not yet destroyed its keeper
Alive(f) ==
    pc[f] \in {"entry", "body", "yield", "yielded", "run", "run_one", "switched"}

LiveCount == Cardinality({f \in FiberIds : Alive(f)})

(***************************************************************************)
(* Fiber bodies.  A body is a sequence of operations; "sched" carries the  *)
(* body of the fiber it schedules.                                         *)
(***************************************************************************)
Op(o) == [op |-> o, arg |-> <<>>]
Inc == Op("inc")                        \* cur_fiber = id; ++x
Yield == Op("yield")                    \* yield()
Sched(b) == [op |-> "sched", arg |-> b] \* schedule(b)

\* test_simple, test_multiple: [&]() { ++x; }
Once == <<Inc>>

\* test_yield_one, test_yield_many: for (i != ITERS) { ++x; yield(); }
RECURSIVE Loop(_)
Loop(k) == IF k = 0 THEN <<>> ELSE <<Inc, Yield>> \o Loop(k - 1)

\* test_recursive: schedule([&]() { schedule([&]() { ... ++x; }); })
RECURSIVE Chain(_)
Chain(d) == IF d = 0 THEN Once ELSE <<Sched(Chain(d - 1))>>

\* a body that schedules, yields and then increments
Mixed == <<Sched(Once), Yield, Inc>>

Programs ==
    {Once, Mixed}
    \cup {Loop(k) : k \in 1 .. MaxIters}
    \cup {Chain(d) : d \in 1 .. MaxDepth}

\* fibers the operations b[i..] schedule, directly or through their children
RECURSIVE SpawnsFrom(_, _)
SpawnsFrom(b, i) ==
    IF i > Len(b) THEN 0
    ELSE (IF b[i].op = "sched" THEN 1 + SpawnsFrom(b[i].arg, 1) ELSE 0)
         + SpawnsFrom(b, i + 1)

\* increments among the first i - 1 operations of b
RECURSIVE IncsBefore(_, _)
IncsBefore(b, i) ==
    IF i <= 1 THEN 0
    ELSE IncsBefore(b, i - 1)
         + (IF i - 1 <= Len(b) /\ b[i - 1].op = "inc" THEN 1 ELSE 0)

\* the sum of a sequence of numbers
RECURSIVE SumSeq(_)
SumSeq(s) == IF s = <<>> THEN 0 ELSE Head(s) + SumSeq(Tail(s))

RemSpawns(f) == SpawnsFrom(body[f], ip[f])

\* fibers scheduled so far plus those the live bodies will still schedule
Committed == nfib + SumSeq([f \in 1 .. nfib |-> RemSpawns(f)])

(***************************************************************************)
(* Contexts.  A Context is {eip, esp}: a resume point on some stack.  It   *)
(* is modelled by the thread whose stack esp points into and the place     *)
(* eip resumes at: "entry" (run_fiber, set by schedule), or the ret_label  *)
(* of the switch_context call made in "run_one", "yield" or "run_fiber";   *)
(* "zero" is the value-initialised Context, eip = esp = 0.                 *)
(***************************************************************************)
Context(t, a) == [thr |-> t, at |-> a]
ZeroContext == Context(0 - 1, "zero")

\* what executing past a dead frame or through a null pointer can do
UBOutcomes == {"segv", "wild"}

\* c designates a frame that is still suspended where c says
Live(c) ==
    /\ c.at # "zero"
    /\ \/ c.at = "entry" /\ pc[c.thr] = "entry"
       \/ c.at = "run_one" /\ pc[c.thr] = "switched"
       \/ c.at = "yield" /\ pc[c.thr] = "yielded"

\* where the thread resumed through c continues
ResumeAt(c) == IF c.at = "run_one" THEN "run" ELSE "body"

\* Context::switch_context on a slot holding target: control moves to target;
\* the caller (who stores the saved context in the slot) is left at susp
switch_context(target, susp) ==
    IF Live(target)
    THEN /\ pc' = [pc EXCEPT ![cur] = susp, ![target.thr] = ResumeAt(target)]
         /\ cur' = target.thr
    ELSE /\ cur' = cur
         /\ IF target.at = "zero"
            THEN pc' = [pc EXCEPT ![cur] = "segv"]
            ELSE \E o \in UBOutcomes : pc' = [pc EXCEPT ![cur] = o]

(***************************************************************************)
(* StackPool                                                               *)
(***************************************************************************)
\* an alloc() that takes the oldest free block, stacks.front()
StackPool_alloc_block_oldest ==
    IF stacks # <<>> THEN stacks[1] ELSE created + 1

\* the block alloc() returns
StackPool_alloc_block ==
    IF stacks # <<>> THEN stacks[Len(stacks)] ELSE created + 1

\* an alloc() without its stacks.pop_back()
StackPool_alloc_rest_nopop == stacks

\* the free list after alloc()
StackPool_alloc_rest ==
    IF stacks # <<>> THEN SubSeq(stacks, 1, Len(stacks) - 1) ELSE stacks

\* an alloc() that calls calloc even when the free list has a block
StackPool_alloc_created_always == created + 1

\* the number of blocks calloc'ed after alloc()
StackPool_alloc_created ==
    IF stacks # <<>> THEN created ELSE created + 1

\* the free list after free(blk)
StackPool_free(blk) == Append(stacks, blk)

(***************************************************************************)
(* FiberScheduler                                                          *)
(***************************************************************************)
\* a push at the front instead of the back
QueuePush_front(q, c) == <<c>> \o q

\* queue.push(c)
QueuePush(q, c) == Append(q, c)

\* back() taken for front()
QueueFront_back(q) == q[Len(q)]

\* queue.front()
QueueFront(q) == Head(q)

\* run_one without its queue.pop()
QueuePop_none(q) == q

\* queue.pop()
QueuePop(q) == Tail(q)

\* queue.back()
QueueBack(q) == q[Len(q)]

\* ~FiberKeeper on a keeper whose stack is s: the free list l afterwards
FiberKeeper_dtor(l, s) == IF s # 0 THEN Append(l, s) ELSE l

\* a schedule without its memset: the local fk still names the block
ScheduleLocalStack_nomemset(blk) == blk

\* fk.stack of schedule's local fk when it goes out of scope, after
\* memset(&fk, 0, sizeof(fk))
ScheduleLocalStack(blk) == 0

\* a schedule that switches into the new fiber at once
FiberScheduler_schedule_eager(b) ==
    /\ nfib' = nfib + 1
    /\ pc' = [pc EXCEPT ![nfib + 1] = "body"]
    /\ ip' = IF cur = 0 THEN [ip EXCEPT ![nfib + 1] = 1]
             ELSE [ip EXCEPT ![nfib + 1] = 1, ![cur] = @ + 1]
    /\ cur' = nfib + 1
    /\ body' = [body EXCEPT ![nfib + 1] = b]
    /\ stack' = [stack EXCEPT ![nfib + 1] = StackPool_alloc_block]
    /\ stacks' = StackPool_alloc_rest
    /\ created' = StackPool_alloc_created
    /\ queue' = queue
    /\ pushed' = pushed
    /\ peak' = IF LiveCount' > peak THEN LiveCount' ELSE peak

\* FiberScheduler::schedule(b) called by thread cur; it returns to its caller
FiberScheduler_schedule(b) ==
    /\ nfib' = nfib + 1
    /\ pc' = [pc EXCEPT ![nfib + 1] = "entry"]
    /\ ip' = IF cur = 0 THEN [ip EXCEPT ![nfib + 1] = 1]
             ELSE [ip EXCEPT ![nfib + 1] = 1, ![cur] = @ + 1]
    /\ cur' = cur
    /\ body' = [body EXCEPT ![nfib + 1] = b]
    /\ stack' = [stack EXCEPT ![nfib + 1] = StackPool_alloc_block]
    /\ stacks' = FiberKeeper_dtor(StackPool_alloc_rest,
                                  ScheduleLocalStack(StackPool_alloc_block))
    /\ created' = StackPool_alloc_created
    /\ queue' = QueuePush(queue, Context(nfib + 1, "entry"))
    /\ pushed' = Append(pushed, nfib + 1)
    /\ peak' = IF LiveCount' > peak THEN LiveCount' ELSE peak

\* schedule and yield without their test of global_scheduler
NoScheduler_unchecked == FALSE

\* the test of the free functions schedule and yield: if (!global_scheduler)
NoScheduler == ~global_scheduler

\* a loop that stops one entry early
RunLoopCond_offbyone(q) == Len(q) > 1

\* a do-while loop: run_one is entered before the queue is tested
RunLoopCond_dowhile(q) == TRUE

\* the condition of run()'s while loop
RunLoopCond(q) == q # <<>>

\* a destructor without its assertion
DestructorAssert_none(q) == TRUE

\* the condition ~FiberScheduler asserts
DestructorAssert(q) == q = <<>>

Init ==
    /\ global_scheduler = FALSE
    /\ queue = <<>>
    /\ main_loop = ZeroContext
    /\ stacks = <<>>
    /\ created = 0
    /\ cur = 0
    /\ pc = [t \in Threads |-> IF t = 0 THEN "idle" ELSE "none"]
    /\ nfib = 0
    /\ body = [f \in FiberIds |-> <<>>]
    /\ ip = [f \in FiberIds |-> 0]
    /\ stack = [f \in FiberIds |-> 0]
    /\ x = 0
    /\ cur_fiber = 0 - 1
    /\ call = "none"
    /\ result = "none"
    /\ threw = FALSE
    /\ pushed = <<>>
    /\ popped = <<>>
    /\ peak = 0

Idle == cur = 0 /\ pc[0] = "idle"

\* init_global_scheduler(): make_unique, then the replaced instance is destroyed
InitGlobalScheduler ==
    /\ Idle
    /\ call' = "init"
    /\ IF global_scheduler /\ ~DestructorAssert(queue)
       THEN /\ pc' = [pc EXCEPT ![0] = "abort"]
            /\ result' = "abort"
            /\ UNCHANGED <<global_scheduler, queue>>
       ELSE /\ global_scheduler' = TRUE
            /\ queue' = <<>>
            /\ result' = "ok"
            /\ UNCHANGED pc
    /\ UNCHANGED <<main_loop, stacks, created, peak, cur, nfib, body, ip, stack, x,
                   cur_fiber, threw, pushed, popped>>

\* schedule(b) called by the program, outside any fiber
ScheduleCall(b) ==
    /\ Idle
    /\ call' = "schedule"
    /\ IF NoScheduler
       THEN /\ threw' = TRUE
            /\ result' = "runtime_error"
            /\ UNCHANGED <<queue, stacks, created, peak, cur, pc, nfib, body, ip,
                           stack, pushed>>
       ELSE /\ Committed + 1 + SpawnsFrom(b, 1) <= MaxFibers
            /\ FiberScheduler_schedule(b)
            /\ result' = "ok"
            /\ UNCHANGED threw
    /\ UNCHANGED <<global_scheduler, main_loop, x, cur_fiber, popped>>

Schedule == \E b \in Programs : ScheduleCall(b)

\* yield() called by the program, outside any fiber: the throw, or
\* FiberScheduler::yield up to queue.push(main_loop)
YieldCall ==
    /\ Idle
    /\ call' = "yield"
    /\ IF NoScheduler
       THEN /\ threw' = TRUE
            /\ result' = "runtime_error"
            /\ UNCHANGED <<queue, pc, pushed>>
       ELSE /\ queue' = QueuePush(queue, main_loop)
            /\ pushed' = Append(pushed, cur)
            /\ pc' = [pc EXCEPT ![0] = "yield"]
            /\ result' = "pending"
            /\ UNCHANGED threw
    /\ UNCHANGED <<global_scheduler, main_loop, stacks, created, peak, cur, nfib,
                   body, ip, stack, x, cur_fiber, popped>>

\* run_global_scheduler(): global_scheduler->run(), with no null check
RunGlobalScheduler ==
    /\ Idle
    /\ call' = "run"
    /\ IF ~global_scheduler
       THEN /\ \E o \in UBOutcomes : pc' = [pc EXCEPT ![0] = o]
            /\ result' = "undefined"
       ELSE /\ pc' = [pc EXCEPT ![0] = "run"]
            /\ result' = "pending"
    /\ UNCHANGED <<global_scheduler, queue, main_loop, stacks, created, peak, cur,
                   nfib, body, ip, stack, x, cur_fiber, threw, pushed, popped>>

\* FiberScheduler::run at the head of its loop: return when the queue is empty,
\* else run_one up to queue.pop()
Run ==
    /\ pc[cur] = "run"
    /\ IF RunLoopCond(queue)
       THEN IF queue = <<>>
            THEN \* run_one: assert(!queue.empty())
                 /\ pc' = [pc EXCEPT ![cur] = "abort"]
                 /\ result' = "abort"
                 /\ UNCHANGED <<main_loop, queue, popped>>
            ELSE /\ main_loop' = QueueFront(queue)
                 /\ queue' = QueuePop(queue)
                 /\ popped' = Append(popped, QueueFront(queue).thr)
                 /\ pc' = [pc EXCEPT ![cur] = "run_one"]
                 /\ UNCHANGED result
       ELSE /\ pc' = [pc EXCEPT ![cur] = IF cur = 0 THEN "idle" ELSE "body"]
            /\ result' = IF cur = 0 THEN "ok" ELSE result
            /\ UNCHANGED <<main_loop, queue, popped>>
    /\ UNCHANGED <<global_scheduler, stacks, created, peak, cur, nfib, body, ip,
                   stack, x, cur_fiber, call, threw, pushed>>

\* run_one: main_loop.switch_context()
RunOneSwitch ==
    /\ pc[cur] = "run_one"
    /\ main_loop' = Context(cur, "run_one")
    /\ switch_context(main_loop, "switched")
    /\ UNCHANGED <<global_scheduler, queue, stacks, created, peak, nfib, body, ip,
                   stack, x, cur_fiber, call, result, threw, pushed,
                   popped>>

InBody == cur \in FiberIds /\ pc[cur] = "body" /\ ip[cur] <= Len(body[cur])
NextOp == body[cur][ip[cur]]

\* cur_fiber = fiber_id; ++x in a fiber body
FiberInc ==
    /\ InBody /\ NextOp.op = "inc"
    /\ cur_fiber' = cur
    /\ x' = x + 1
    /\ ip' = [ip EXCEPT ![cur] = @ + 1]
    /\ UNCHANGED <<global_scheduler, queue, main_loop, stacks, created, peak, cur, pc,
                   nfib, body, stack, call, result, threw, pushed, popped>>

\* schedule(b) in a fiber body
FiberSchedule ==
    /\ InBody /\ NextOp.op = "sched"
    /\ FiberScheduler_schedule(NextOp.arg)
    /\ UNCHANGED <<global_scheduler, main_loop, x, cur_fiber, call, result,
                   threw, popped>>

\* yield() in a fiber body, up to queue.push(main_loop)
FiberYield ==
    /\ InBody /\ NextOp.op = "yield"
    /\ queue' = QueuePush(queue, main_loop)
    /\ pushed' = Append(pushed, cur)
    /\ pc' = [pc EXCEPT ![cur] = "yield"]
    /\ ip' = [ip EXCEPT ![cur] = @ + 1]
    /\ UNCHANGED <<global_scheduler, main_loop, stacks, created, peak, cur, nfib,
                   body, stack, x, cur_fiber, call, result, threw, popped>>

\* a yield that switches through main_loop instead of the queue's back entry
YieldSwitch_viaMain ==
    /\ pc[cur] = "yield"
    /\ main_loop' = Context(cur, "yield")
    /\ switch_context(main_loop, "yielded")
    /\ UNCHANGED <<global_scheduler, queue, stacks, created, peak, nfib, body, ip,
                   stack, x, cur_fiber, call, result, threw, pushed, popped>>

\* FiberScheduler::yield: queue.back().switch_context()
YieldSwitch ==
    /\ pc[cur] = "yield"
    /\ queue' = [queue EXCEPT ![Len(queue)] = Context(cur, "yield")]
    /\ switch_context(QueueBack(queue), "yielded")
    /\ UNCHANGED <<global_scheduler, main_loop, stacks, created, peak, nfib, body, ip,
                   stack, x, cur_fiber, call, result, threw, pushed,
                   popped>>

\* run_fiber after fiber.fiber() returned: fiber.~FiberKeeper()
RunFiberRelease ==
    /\ cur \in FiberIds /\ pc[cur] = "body" /\ ip[cur] > Len(body[cur])
    /\ stacks' = IF stack[cur] # 0 THEN StackPool_free(stack[cur]) ELSE stacks
    /\ stack' = [stack EXCEPT ![cur] = 0]
    /\ pc' = [pc EXCEPT ![cur] = "released"]
    /\ UNCHANGED <<global_scheduler, queue, main_loop, created, peak, cur, nfib, body,
                   ip, x, cur_fiber, call, result, threw, pushed, popped>>

\* a run_fiber that ends by yield(): it queues its own context and leaves
RunFiberSwitch_yield ==
    /\ cur \in FiberIds /\ pc[cur] = "released"
    /\ queue' = QueuePush(queue, Context(cur, "run_fiber"))
    /\ pushed' = Append(pushed, cur)
    /\ switch_context(main_loop, "dead")
    /\ UNCHANGED <<global_scheduler, main_loop, stacks, created, peak, nfib, body, ip,
                   stack, x, cur_fiber, call, result, threw, popped>>

\* run_fiber: main_loop.switch_context()
RunFiberSwitch ==
    /\ cur \in FiberIds /\ pc[cur] = "released"
    /\ main_loop' = Context(cur, "run_fiber")
    /\ switch_context(main_loop, "dead")
    /\ UNCHANGED <<global_scheduler, queue, stacks, created, peak, nfib, body, ip,
                   stack, x, cur_fiber, call, result, threw, pushed,
                   popped>>

\* main returns: the unique_ptr's destructor destroys the instance
Exit ==
    /\ Idle
    /\ call' = "exit"
    /\ IF global_scheduler /\ ~DestructorAssert(queue)
       THEN pc' = [pc EXCEPT ![0] = "abort"] /\ result' = "abort"
       ELSE pc' = [pc EXCEPT ![0] = "exited"] /\ result' = "ok"
    /\ UNCHANGED <<global_scheduler, queue, main_loop, stacks, created, peak, cur,
                   nfib, body, ip, stack, x, cur_fiber, threw, pushed,
                   popped>>

Next ==
    \/ InitGlobalScheduler
    \/ Schedule
    \/ YieldCall
    \/ RunGlobalScheduler
    \/ Run
    \/ RunOneSwitch
    \/ FiberInc
    \/ FiberSchedule
    \/ FiberYield
    \/ YieldSwitch
    \/ RunFiberRelease
    \/ RunFiberSwitch
    \/ Exit

Spec == Init /\ [][Next]_vars

(***************************************************************************)
(* Fiber bodies that call run_global_scheduler()                           *)
(***************************************************************************)
RunOp == Op("run")                      \* run_global_scheduler()

\* [&]() { run_global_scheduler(); ++x; }
Nested == <<RunOp, Inc>>

\* [&]() { run_global_scheduler(); yield(); }
NestedYield == <<RunOp, Yield>>

NestedPrograms == {Nested, NestedYield}

ScheduleNested == \E b \in NestedPrograms : ScheduleCall(b)

\* run_global_scheduler() in a fiber body: global_scheduler->run() is entered
\* on the fiber's stack
FiberRun ==
    /\ InBody /\ NextOp.op = "run"
    /\ pc' = [pc EXCEPT ![cur] = "run"]
    /\ ip' = [ip EXCEPT ![cur] = @ + 1]
    /\ UNCHANGED <<global_scheduler, queue, main_loop, stacks, created, peak, cur,
                   nfib, body, stack, x, cur_fiber, call, result, threw,
                   pushed, popped>>

NextNested ==
    \/ Next
    \/ ScheduleNested
    \/ FiberRun

SpecNested == Init /\ [][NextNested]_vars

(***************************************************************************)
(* Properties                                                              *)
(***************************************************************************)
\* run() has returned to the program
RunReturned == cur = 0 /\ pc[0] = "idle" /\ call = "run" /\ result = "ok"

Crashed(t) == pc[t] \in UBOutcomes

\* the increments of fiber f's own body
OwnIncs(f) == IncsBefore(body[f], Len(body[f]) + 1)

\* the fibers scheduled so far all have the body [&]() { ++x; }
AllOnce == nfib >= 1 /\ \A f \in 1 .. nfib : body[f] = Once

\* C1: N >= 1 fibers without yield, each incrementing the counter once: no
\* body runs twice or is resumed after its end, and when run() has returned
\* every body has run and the counter equals N.
C1_ExactlyOnce ==
    AllOnce =>
        /\ x <= nfib
        /\ \A f \in 1 .. nfib : ~Crashed(f)
        /\ Crashed(0) => call = "yield"
        /\ RunReturned => x = nfib /\ \A f \in 1 .. nfib : pc[f] = "dead"

\* three fibers as in test_multiple, after the drain
C1_Witness == AllOnce /\ RunReturned /\ nfib = 3 /\ x = 3

\* C2: when run() has returned, the queue is empty, every fiber scheduled
\* before or during the drain, at any depth, has completed, no body has a
\* schedule call left to make, and the counter holds every increment.
C2_NestedDrain ==
    RunReturned =>
        /\ queue = <<>>
        /\ \A f \in 1 .. nfib : pc[f] = "dead" /\ ip[f] = Len(body[f]) + 1
        /\ Committed = nfib
        /\ x = SumSeq([f \in 1 .. nfib |-> OwnIncs(f)])

\* a chain of depth 2 (three fibers, one increment) drained by one run()
C2_Witness ==
    /\ RunReturned /\ nfib = 3 /\ x = 1
    /\ body[1] = Chain(2) /\ body[2] = Chain(1) /\ body[3] = Once

LoopBody(b) == \E k \in 1 .. MaxIters : b = Loop(k)
AllLoops == nfib >= 1 /\ \A f \in 1 .. nfib : LoopBody(body[f])
Iters(f) == Len(body[f]) \div 2

\* C3: a fiber looping n times over { ++x; yield(); }: nothing runs before
\* run(), a yielded fiber is waiting in the queue (or was just popped by
\* run_one, which is about to resume it), the fiber completes only
\* after its last iteration, and when run() has returned it has completed
\* and the counter holds the n increments of every such fiber.
C3_YieldLoop ==
    /\ popped = <<>> => x = 0
    /\ \A f \in 1 .. nfib :
        LoopBody(body[f]) =>
            /\ pc[f] = "yielded" =>
                  \/ \E i \in 1 .. Len(queue) : queue[i] = Context(f, "yield")
                  \/ pc[cur] = "run_one" /\ main_loop = Context(f, "yield")
            /\ pc[f] \in {"released", "dead"} => ip[f] = Len(body[f]) + 1
            /\ ~Crashed(f)
            /\ RunReturned => pc[f] = "dead"
    /\ AllLoops /\ RunReturned => x = SumSeq([f \in 1 .. nfib |-> Iters(f)])

\* the only fiber of the queue has yielded twice and run() has returned
C3_Witness ==
    RunReturned /\ nfib = 1 /\ body[1] = Loop(2) /\ x = 2 /\ popped = <<1, 1, 1>>

\* N >= 2 fibers with the same loop of K iterations, all scheduled before any ran
RoundRobinCase(k) ==
    /\ nfib >= 2
    /\ \A f \in 1 .. nfib : body[f] = Loop(k)
    /\ Len(pushed) >= nfib
    /\ \A f \in 1 .. nfib : pushed[f] = f

\* C4: in that case the i-th increment (counted from 0) is made by the fiber
\* scheduled at position i mod N, so no fiber makes two in a row, and when
\* run() has returned the counter is N * K.
C4_RoundRobin ==
    \A k \in 1 .. MaxIters :
        RoundRobinCase(k) =>
            /\ x > 0 => cur_fiber = ((x - 1) % nfib) + 1
            /\ x <= nfib * k
            /\ RunReturned => x = nfib * k

\* three fibers of two iterations each, after the drain
C4_Witness == RoundRobinCase(2) /\ RunReturned /\ nfib = 3 /\ x = 6

\* C5: the step that constructs a fiber leaves it unstarted, returns to its
\* caller and appends the entry context; a fiber leaves "entry" only by
\* run_one's switch into the context run_one popped.
C5_LazyStart ==
    [][ /\ nfib' # nfib =>
              /\ nfib' = nfib + 1
              /\ pc'[nfib'] = "entry" /\ ip'[nfib'] = 1
              /\ cur' = cur /\ pc'[cur] = pc[cur]
              /\ x' = x /\ main_loop' = main_loop
              /\ queue' = Append(queue, Context(nfib', "entry"))
        /\ \A f \in FiberIds :
              pc[f] = "entry" /\ pc'[f] # "entry" =>
                  /\ pc[cur] = "run_one" /\ main_loop = Context(f, "entry")
                  /\ cur' = f /\ pc'[f] = "body" /\ ip'[f] = 1
      ]_vars

\* schedule called inside a running fiber has returned to it
C5_Witness ==
    /\ cur \in FiberIds /\ pc[cur] = "body" /\ ip[cur] = 2
    /\ body[cur][1].op = "sched"
    /\ pc[nfib] = "entry" /\ nfib # cur
IsPrefix(s, t) == Len(s) <= Len(t) /\ SubSeq(t, 1, Len(s)) = s
QueueThreads == [i \in 1 .. Len(queue) |-> queue[i].thr]

\* C6: run() takes contexts in the order schedule and yield appended them:
\* the threads resumed so far are a prefix of the threads appended so far,
\* and the queue holds exactly the appended entries not yet taken, in order
\* (between yield's push and its switch the back entry is still the copy of
\* main_loop that yield pushed).
C6_Fifo ==
    /\ IsPrefix(popped, pushed)
    /\ Len(pushed) = Len(popped) + Len(queue)
    /\ pc[cur] # "yield" => pushed = popped \o QueueThreads

\* a fiber that scheduled another and then yielded was resumed after it
C6_Witness ==
    /\ nfib = 3 /\ body[1] = Mixed /\ body[2] = Loop(1) /\ body[3] = Once
    /\ popped = <<1, 2, 3, 1>> /\ queue = <<Context(2, "yield")>>

\* what run() on an empty queue must leave alone
DrainFrame ==
    <<global_scheduler, queue, main_loop, stacks, created, cur, nfib, body, ip,
      stack, x, cur_fiber, pushed, popped>>

\* C7: run() on an installed scheduler whose queue is empty: the call enters
\* the loop and the next step returns to the caller with result ok; neither
\* step switches context, runs a fiber or changes the queue or the pool.
C7_EmptyDrain ==
    [][ /\ (Idle /\ global_scheduler /\ queue = <<>> /\ call' = "run") =>
              /\ pc' = [pc EXCEPT ![0] = "run"]
              /\ UNCHANGED DrainFrame
        /\ (cur = 0 /\ pc[0] = "run" /\ queue = <<>>) =>
              /\ pc' = [pc EXCEPT ![0] = "idle"]
              /\ result' = "ok"
              /\ UNCHANGED DrainFrame
      ]_vars

\* run() has returned on a scheduler on which nothing was ever scheduled
C7_Witness == RunReturned /\ global_scheduler /\ nfib = 0 /\ popped = <<>>

\* C8: schedule(work) or yield() called with no instance installed ends in
\* std::runtime_error and changes nothing else; once an instance is installed
\* a schedule call succeeds, appending the fiber, and when run() has then
\* returned every fiber scheduled has completed.
C8_UninitializedUse ==
    /\ [][ /\ (Idle /\ ~global_scheduler /\ call' \in {"schedule", "yield"}) =>
                 /\ result' = "runtime_error" /\ threw'
                 /\ pc' = pc
                 /\ UNCHANGED DrainFrame
           /\ (Idle /\ global_scheduler /\ call' = "schedule") =>
                 /\ result' = "ok"
                 /\ nfib' = nfib + 1
                 /\ queue' = Append(queue, Context(nfib', "entry"))
         ]_vars
    /\ [](threw /\ RunReturned => \A f \in 1 .. nfib : pc[f] = "dead")

\* after a failed call, init, schedule and run: the work has run
C8_Witness == threw /\ RunReturned /\ nfib = 1 /\ pc[1] = "dead" /\ x = 1

\* C9: yield() called on an installed scheduler while no fiber executes stops
\* in an assertion failure, having appended nothing to the queue and
\* switched into no context.
C9_YieldOutsideFiberAborts ==
    (cur = 0 /\ global_scheduler /\ call = "yield") =>
        /\ pc[0] = "abort"
        /\ \A i \in 1 .. Len(pushed) : pushed[i] # 0

\* C10: a step that destroys the installed instance (init_global_scheduler
\* replacing it, or the end of the program) stops in the destructor's
\* assertion, the queue untouched, when the queue is not empty, and raises
\* no assertion when the queue is empty.
C10_DestroyNonEmpty ==
    [][ (Idle /\ global_scheduler /\ call' \in {"init", "exit"}) =>
            IF queue # <<>>
            THEN pc'[0] = "abort" /\ queue' = queue
            ELSE pc'[0] # "abort" /\ result' = "ok"
      ]_vars

\* a second init_global_scheduler found fibers still queued
C10_Witness == pc[0] = "abort" /\ call = "init" /\ queue # <<>>

\* C11: run_global_scheduler() called with no instance installed ends in the
\* same std::runtime_error as schedule() and yield(), returns to its caller
\* and changes nothing else.
C11_RunUninitializedThrows ==
    (cur = 0 /\ call = "run" /\ ~global_scheduler) =>
        /\ pc[0] = "idle"
        /\ result = "runtime_error"

\* C12: a completing fiber puts its block at the back of the free list; a
\* schedule takes the block at the back of the free list, the one freed
\* last, and creates no block, and only with an empty free list does it
\* create a new one; no other step creates a block.
C12_StackReuse ==
    [][ /\ \A f \in FiberIds :
              (stack[f] # 0 /\ stack'[f] = 0) =>
                  stacks' = Append(stacks, stack[f])
        /\ nfib' # nfib =>
              IF stacks # <<>>
              THEN /\ stack'[nfib'] = stacks[Len(stacks)]
                   /\ stacks' = SubSeq(stacks, 1, Len(stacks) - 1)
                   /\ created' = created
              ELSE /\ stack'[nfib'] = created + 1
                   /\ stacks' = <<>>
                   /\ created' = created + 1
        /\ nfib' = nfib => created' = created
      ]_vars

\* two fibers completed, freeing block 1 and then block 2; the third fiber
\* scheduled received block 2 and the pool still counts two blocks
C12_Witness ==
    /\ nfib = 3 /\ pc[1] = "dead" /\ pc[2] = "dead" /\ pc[3] = "entry"
    /\ stack[3] = 2 /\ stacks = <<1>> /\ created = 2

\* the program has made no yield() call of its own on an instance
NoOutsideYield == \A i \in 1 .. Len(pushed) : pushed[i] # 0

\* C13: as long as yield() is called only inside fiber bodies, no queue entry
\* is the context a completed fiber left, every switch about to be made
\* (run_one's, yield's, run_fiber's) targets a context whose frame is still
\* suspended there, so never a completed fiber's, and nothing ever executes
\* past a dead frame.
C13_NoDeadResume ==
    NoOutsideYield =>
        /\ \A i \in 1 .. Len(queue) : queue[i].at # "run_fiber"
        /\ pc[cur] \in {"run_one", "released"} =>
              main_loop.at # "run_fiber" /\ Live(main_loop)
        /\ pc[cur] = "yield" =>
              QueueBack(queue).at # "run_fiber" /\ Live(QueueBack(queue))
        /\ \A f \in 1 .. nfib : ~Crashed(f)
        /\ Crashed(0) => call = "run" /\ ~global_scheduler

\* a second drain: fiber 2 was scheduled by the program after fiber 1 had
\* completed (it runs on the block fiber 1 freed), and run_one has replaced
\* the dead context fiber 1 left in main_loop by fiber 2's entry
C13_Witness ==
    /\ nfib = 2 /\ body[1] = Once /\ pc[1] = "dead" /\ stack[2] = 1
    /\ cur = 0 /\ pc[0] = "run_one" /\ main_loop = Context(2, "entry")

Range(s) == {s[i] : i \in 1 .. Len(s)}

\* C14: a fiber that has not completed (queued and unstarted, running, or
\* yielded) holds its block and the block is not in the free list; a
\* completed fiber holds none; no block is in the free list twice; and the
\* free list grows only by the step in which a fiber whose body has ended
\* releases its block, by exactly that block.
C14_ReleasedOnceAtCompletion ==
    /\ [](\A f \in 1 .. nfib :
            /\ Alive(f) => stack[f] # 0 /\ stack[f] \notin Range(stacks)
            /\ pc[f] \in {"released", "dead"} => stack[f] = 0)
    /\ [](\A i, j \in 1 .. Len(stacks) : i # j => stacks[i] # stacks[j])
    /\ [][ Len(stacks') > Len(stacks) =>
              /\ cur \in FiberIds /\ pc[cur] = "body"
              /\ ip[cur] > Len(body[cur])
              /\ pc'[cur] = "released"
              /\ stacks' = Append(stacks, stack[cur])
         ]_vars

\* fiber 1 waits in the queue after a yield, holding its block, while fiber 2
\* has completed and its block is the free list
C14_Witness ==
    /\ nfib = 2 /\ pc[1] = "yielded" /\ pc[2] = "dead"
    /\ stack[1] = 1 /\ stacks = <<2>>

\* the places of the free list that hold block b
FreeSlots(b) == {i \in 1 .. Len(stacks) : stacks[i] = b}

\* the fibers whose FiberKeeper holds block b
Holders(b) == {f \in 1 .. nfib : stack[f] = b}

\* C15: every block created so far has exactly one owner, a place of the free
\* list or a fiber that has not completed; every block owned is a block
\* created.
C15_SingleOwner ==
    /\ \A b \in 1 .. created :
          Cardinality(FreeSlots(b)) + Cardinality(Holders(b)) = 1
    /\ \A f \in 1 .. nfib :
          stack[f] # 0 =>
              stack[f] \in 1 .. created /\ pc[f] \notin {"released", "dead"}
    /\ Range(stacks) \subseteq 1 .. created

\* three blocks: one free again, two held by fibers that have not completed
C15_Witness ==
    /\ created = 3 /\ Len(stacks) = 1
    /\ Cardinality({f \in 1 .. nfib : Alive(f)}) = 2

\* C16: no queue entry is a context of the thread that is executing, also
\* between yield's push and its switch (the entry pushed is a copy of
\* main_loop, the suspended run loop) and between run_one's pop and its
\* switch; as long as yield() is called only inside fiber bodies every queue
\* entry is the context of a suspended frame.
C16_RunningNotQueued ==
    /\ ~Crashed(cur) => \A i \in 1 .. Len(queue) : queue[i].thr # cur
    /\ NoOutsideYield => \A i \in 1 .. Len(queue) : Live(queue[i])

\* a fiber inside yield(), after the push and before the switch, with another
\* context waiting in the queue
C16_Witness ==
    /\ cur \in FiberIds /\ pc[cur] = "yield" /\ Len(queue) = 2
    /\ queue[2] = main_loop /\ main_loop = Context(0, "run_one")

\* C17: yield() called by a running fiber.  Its first step appends one entry
\* and leaves the entries before it, the caller and every block alone; its
\* second step makes that back entry the caller's continuation, leaves the
\* other entries, main_loop and every block alone, and resumes the run loop
\* that had popped and resumed this fiber, at the return of its run_one.
C17_YieldEffect ==
    [][ /\ (InBody /\ NextOp.op = "yield") =>
              /\ queue' = Append(queue, main_loop)
              /\ cur' = cur /\ pc'[cur] = "yield"
              /\ UNCHANGED <<stack, stacks, created, main_loop>>
        /\ (cur \in FiberIds /\ pc[cur] = "yield") =>
              /\ queue' = Append(SubSeq(queue, 1, Len(queue) - 1),
                                  Context(cur, "yield"))
              /\ popped[Len(popped)] = cur
              /\ main_loop = Context(cur', "run_one")
              /\ pc[cur'] = "switched" /\ pc'[cur'] = "run"
              /\ pc'[cur] = "yielded"
              /\ UNCHANGED <<stack, stacks, created, main_loop>>
      ]_vars

\* fiber 1 has yielded: the run loop is back at its loop test and fiber 1's
\* continuation stands behind the entry that was already queued
C17_Witness ==
    /\ cur = 0 /\ pc[0] = "run" /\ pc[1] = "yielded"
    /\ queue = <<Context(2, "entry"), Context(1, "yield")>>

\* The program is one flow of control that keeps executing: whenever some step
\* is possible, a step is taken.
FairSpec == Spec /\ WF_vars(Next)

\* C18: every fiber body being a finite list of operations, a run() entered
\* from the program's stack eventually returns with the ready queue empty and
\* every scheduled fiber completed, and run() returns only when the queue is
\* empty.
C18_DrainTerminates ==
    /\ (cur = 0 /\ pc[0] = "run") ~>
           (/\ RunReturned
            /\ queue = <<>>
            /\ \A f \in 1 .. nfib : pc[f] = "dead")
    /\ [][ (pc[cur] = "run" /\ pc'[cur] \in {"idle", "body"}) =>
               (queue = <<>> /\ queue' = <<>>) ]_vars

\* run() has returned after draining fibers that yielded and spawned
C18_Witness ==
    /\ RunReturned /\ queue = <<>> /\ nfib = MaxFibers
    /\ \A f \in 1 .. nfib : pc[f] = "dead"
    /\ \E f \in 1 .. nfib : body[f] = Loop(MaxIters)
    /\ \E f \in 1 .. nfib : body[f] = Mixed

\* C19: with fiber bodies that call run(), whenever a fiber is executing
\* (in its body, inside yield(), or at the end of run_fiber) the static
\* main_loop slot designates a run loop suspended in its run_one, so what the
\* fiber switches to when it yields or completes is never a completed fiber's
\* context, and no fiber ends up executing past a dead frame.
C19_NestedRun ==
    /\ (cur \in FiberIds /\ pc[cur] \in {"body", "yield", "released"}) =>
           (main_loop.at = "run_one" /\ Live(main_loop))
    /\ NoOutsideYield => \A f \in FiberIds : ~Crashed(f)

\* C20: a block is claimed when schedule() constructs the keeper, before the
\* fiber first runs; the number of blocks the pool has created equals the
\* largest number of fibers that were scheduled and not completed at one
\* time so far; and the blocks held by fibers plus the length of the free list
\* equal the number of blocks created.
C20_PoolGrowth ==
    /\ \A f \in 1 .. nfib : pc[f] = "entry" => stack[f] \in 1 .. created
    /\ created = peak
    /\ LiveCount <= peak
    /\ Cardinality({f \in FiberIds : stack[f] # 0}) + Len(stacks) = created

\* four fibers were scheduled in all, never more than two of them at a time:
\* two blocks were created, one is held by a fiber that has not started and
\* one is free again
C20_Witness ==
    /\ nfib = 4 /\ created = 2 /\ peak = 2
    /\ Len(stacks) = 1 /\ LiveCount = 1
    /\ \E f \in 1 .. nfib : pc[f] = "entry" /\ stack[f] # 0

====
